---- MODULE Spec2Model ----
(***************************************************************************)
(* desmod/simulation.py: the single-job runner simulate() and the batch    *)
(* runner simulate_many() with its worker processes and queues.            *)
(***************************************************************************)
EXTENDS Integers, Sequences, FiniteSets, TLC

(* ------------------------------ bounds -------------------------------- *)
\* Largest batch handed to simulate_many.
MaxJobs == 3
\* Largest cpu_count() of the host.
MaxCpu == 2
\* Largest user cap `jobs` (0 and "no cap" are always included).
MaxCap == 2
\* Largest number of steps of one simulate() call that raise when reached.
MaxFails == 2
\* Largest number of simulate() calls one process makes in sequence.
MaxCalls == 2
\* Largest number of configs in a batch that reports progress.
MaxProgJobs == 2
\* Largest number of periodic samples one job emits (the first ones of the
\* hundred of a full run).
MaxTicks == 1

\* Fractions are counted in hundredths: the sampling interval is
\* env.duration / 100 (line 296), so the k-th periodic sample is k / 100.
Hundred == 100
\* The fraction of the final sample, `(seq, 1)` at line 324.
One == Hundred

(* --------------------------- plain values ----------------------------- *)
\* Python's None where an exception description is expected.
NoExc == "None"
\* `jobs=None`, the default of simulate_many.
NoCap == -1
\* A config without 'sim.seq' (config.get('sim.seq') is None).
NoSeq == -1
\* os.getcwd() of a process before its first simulate() call; a directory
\* is the sequence of path components below that one.
PrevDir == << >>

\* The calls made by simulate() that may raise, in the order the code
\* reaches them.
Steps ==
    { "ws_enter", "env_init", "pre_init", "progress_enter", "top_init",
      "elaborate", "run", "post_simulate", "get_result", "progress_exit",
      "trace_exception", "flush_final", "dump", "trace_close", "ws_exit" }

\* The statements of the inner try block, lines 148-158, in order.
BodySteps ==
    << "pre_init", "progress_enter", "top_init", "elaborate", "run",
       "post_simulate", "get_result" >>

\* A config dict, reduced to the reserved keys the runner reads.
Config(seq, progress_enable, result_file, workspace) ==
    [ seq |-> seq, progress_enable |-> progress_enable,
      result_file |-> result_file, workspace |-> workspace ]

NoConfig == Config(NoSeq, FALSE, FALSE, ".")

\* `result = {}`, line 142.  keys is the set of keys present; exception is
\* the value of 'sim.exception' (NoExc when absent or None); config is the
\* value of 'config' (NoConfig when absent).
EmptyResult == [ keys |-> {}, exception |-> NoExc, config |-> NoConfig ]

\* No result file on disk.
NoFile == [ written |-> FALSE, result |-> EmptyResult ]

(* ----------------------------- simulate ------------------------------- *)
\* The call `step` raises: its exception is now the one in flight (it
\* replaces an earlier one).  raised records every call that raised.
Raise(s, step) == [s EXCEPT !.exc = step, !.raised = @ \cup {step}]

\* os.chdir(path) for the relative workspace path, line 118.
Chdir(cwd, path) == Append(cwd, path)

\* _Workspace.__enter__: chdir unless the workspace is the current dir.
WorkspaceEnter(config, s) ==
    IF config.workspace = "." THEN s
    ELSE [s EXCEPT !.cwd = Chdir(s.cwd, config.workspace)]

\* _Workspace.__exit__ without the chdir back.
WorkspaceExitStay(F, s) ==
    IF "ws_exit" \in F THEN Raise(s, "ws_exit") ELSE s

\* _Workspace.__exit__: chdir(prev_dir); an exception it raises replaces the
\* one in flight.
WorkspaceExit(F, s) ==
    IF "ws_exit" \in F THEN Raise(s, "ws_exit")
    ELSE [s EXCEPT !.cwd = s.prev]

\* Whether the step can raise for this config: the progress steps are no-ops
\* when 'sim.progress.enable' is false (line 295, 325-326).
Applicable(config, step) ==
    step \in {"progress_enter", "progress_exit"} => config.progress_enable

\* Index in BodySteps of the first statement of the try block that raises,
\* 0 if all of them complete.
FirstFail(config, F) ==
    LET bad == { i \in 1..Len(BodySteps) :
                    BodySteps[i] \in F /\ Applicable(config, BodySteps[i]) }
    IN  IF bad = {} THEN 0
        ELSE CHOOSE i \in bad : \A j \in bad : i <= j

\* The exception that leaves the try block body (lines 148-158), NoExc if
\* none.  The `finally` of _progress_notification runs once the context was
\* entered; an exception it raises replaces the one in flight.
BodyExc(config, F) ==
    LET ff == FirstFail(config, F)
        entered == config.progress_enable /\ (ff = 0 \/ ff > 2)
    IN  IF entered /\ "progress_exit" \in F THEN "progress_exit"
        ELSE IF ff = 0 THEN NoExc
        ELSE BodySteps[ff]

\* The calls of the try block body that raised.
BodyRaised(config, F) ==
    LET ff == FirstFail(config, F)
        entered == config.progress_enable /\ (ff = 0 \/ ff > 2)
    IN  (IF ff = 0 THEN {} ELSE {BodySteps[ff]})
        \cup (IF entered /\ "progress_exit" \in F
              THEN {"progress_exit"} ELSE {})

\* Whether the body of `with _progress_notification(...)` was entered (the
\* generator reached its yield inside the try, lines 308-324), so that its
\* finally clause runs.
ProgressEntered(config, F) ==
    /\ config.progress_enable
    /\ "ws_enter" \notin F /\ "env_init" \notin F
    /\ FirstFail(config, F) = 0 \/ FirstFail(config, F) > 2

\* Whether the finally clause of shared mode put the final sample
\* `(seq, 1)`, line 324.
FinalSamplePut(config, F) ==
    /\ ProgressEntered(config, F)
    /\ config.seq # NoSeq
    /\ "progress_exit" \notin F

\* Whether top.get_result(result) completed (line 158).
GotResult(config, F) == FirstFail(config, F) = 0

\* _dump_result, lines 272-275.
_dump_result(config, F, s) ==
    IF ~config.result_file THEN s
    ELSE IF "dump" \in F THEN Raise(s, "dump")
    ELSE [s EXCEPT !.file = [written |-> TRUE, result |-> s.result]]

\* The except / else clauses of the inner try, lines 159-164.
InnerExcept(config, F, s) ==
    LET e == BodyExc(config, F)
        r == IF GotResult(config, F)
             THEN [s.result EXCEPT !.keys = @ \cup {"model"}]
             ELSE s.result
        t == [s EXCEPT !.result = r, !.exc = e,
                       !.raised = @ \cup BodyRaised(config, F)]
    IN  IF e # NoExc
        THEN IF "trace_exception" \in F
             THEN Raise(t, "trace_exception")
             ELSE [t EXCEPT !.result = [r EXCEPT
                                !.keys = @ \cup {"sim.exception"},
                                !.exception = e]]
        ELSE [t EXCEPT !.result = [r EXCEPT
                                !.keys = @ \cup {"sim.exception"},
                                !.exception = NoExc]]

\* The finally clause of the inner try, lines 165-171.
InnerFinallyNoTime(config, F, s) ==
    IF "flush_final" \in F THEN Raise(s, "flush_final")
    ELSE _dump_result(config, F,
            [s EXCEPT !.result = [@ EXCEPT
                !.keys = @ \cup {"config", "sim.runtime"},
                !.config = config]])

InnerFinally(config, F, s) ==
    IF "flush_final" \in F THEN Raise(s, "flush_final")
    ELSE _dump_result(config, F,
            [s EXCEPT !.result = [@ EXCEPT
                !.keys = @ \cup {"config", "sim.now", "sim.time",
                                 "sim.runtime"},
                !.config = config]])

\* `with closing(env.tracemgr):`, lines 146-171.
WithClosing(config, F, s) ==
    LET t == InnerFinally(config, F, InnerExcept(config, F, s))
    IN  IF "trace_close" \in F THEN Raise(t, "trace_close") ELSE t

\* `with _Workspace(config):`, lines 144-171.
WithWorkspace(config, F, s) ==
    IF "ws_enter" \in F THEN Raise(s, "ws_enter")
    ELSE LET entered == WorkspaceEnter(config, s)
         IN  WorkspaceExit(F,
                IF "env_init" \in F THEN Raise(entered, "env_init")
                ELSE WithClosing(config, F, entered))

\* The outer except clause and the return, lines 172-179.
OuterExceptSwallow(config, reraise, s) ==
    IF s.exc = NoExc THEN [s EXCEPT !.returned = TRUE]
    ELSE [s EXCEPT
            !.returned = TRUE,
            !.result = [ keys |-> s.result.keys \cup
                            {"config", "sim.runtime", "sim.exception"},
                         config |-> IF "config" \in s.result.keys
                                    THEN s.result.config ELSE config,
                         exception |-> IF s.result.exception = NoExc
                                       THEN s.exc
                                       ELSE s.result.exception ]]

\* The outer except clause re-raising whatever reraise says.
OuterExceptAlways(config, reraise, s) ==
    IF s.exc = NoExc THEN [s EXCEPT !.returned = TRUE] ELSE s

OuterExceptNoDefault(config, reraise, s) ==
    IF s.exc = NoExc THEN [s EXCEPT !.returned = TRUE]
    ELSE IF reraise THEN s
    ELSE [s EXCEPT !.returned = TRUE]

OuterExcept(config, reraise, s) ==
    IF s.exc = NoExc THEN [s EXCEPT !.returned = TRUE]
    ELSE IF reraise THEN s
    ELSE [s EXCEPT
            !.returned = TRUE,
            !.result = [ keys |-> s.result.keys \cup
                            {"config", "sim.runtime", "sim.exception"},
                         config |-> IF "config" \in s.result.keys
                                    THEN s.result.config ELSE config,
                         exception |-> IF s.result.exception = NoExc
                                       THEN s.exc
                                       ELSE s.result.exception ]]

\* The outcome record before simulate() has run: the result dict of line
\* 142, nothing raised, no result file, the caller's working directory cwd
\* and the directory prev that _Workspace.__init__ remembers (line 109).
NoOutcome ==
    [ returned |-> FALSE, exc |-> NoExc, raised |-> {},
      result |-> EmptyResult, file |-> NoFile, cwd |-> PrevDir,
      prev |-> PrevDir ]

\* The emission mode chosen by _progress_notification, lines 295-313: by
\* the presence of 'sim.seq' in the config.
ProgressMode(config) ==
    IF ~config.progress_enable THEN "off"
    ELSE IF config.seq = NoSeq THEN "local"
    ELSE "shared"

\* The calls that raise whatever the job does: in shared mode without a
\* queue, progress_queue.put is an attribute lookup on None, in the progress
\* process stepped by env.run (line 316) and in the finally clause (line
\* 324).
Forced(config, progress_queue) ==
    IF ProgressMode(config) = "shared" /\ ~progress_queue
    THEN {"run", "progress_exit"} ELSE {}

\* simulate(config, top_type, env_type, reraise, progress_queue) where the
\* calls in F raise when reached.  The outcome: returned (or an exception
\* exc propagated), the result dict, the result file and the process's
\* working directory afterwards.
\* progress_queue tells whether a queue (not None) is passed; cwd0 is the
\* working directory of the calling process.
simulate(config, reraise, progress_queue, F, cwd0) ==
    OuterExcept(config, reraise,
        WithWorkspace(config, F \cup Forced(config, progress_queue),
                      [NoOutcome EXCEPT !.cwd = cwd0, !.prev = cwd0]))

\* The sets of raising calls tried.
FailSets == { F \in SUBSET Steps : Cardinality(F) <= MaxFails }

\* The sets of raising calls tried for the later calls of a process.
NextFailSets == { {}, {"elaborate"}, {"ws_exit"} }

(* --------------------------- state ------------------------------------ *)
VARIABLES
    \* one call of the single-job API
    simPc,          \* "call", "returned" or "raised"
    simConfig,      \* its config
    simReraise,     \* its reraise flag
    simFails,       \* the calls that raise when reached
    simOut,         \* the outcome of the call
    cwd,            \* the working directory of the calling process
    calls,          \* the number of calls it has started
    exitRaised,     \* history: _Workspace.__exit__ raised in some call
    \* one call of simulate_many
    configs,        \* the configs handed in, in submission order
    cpu,            \* cpu_count()
    jobs,           \* the user's cap, NoCap for None
    pc,             \* where the submitting process is
    idx,            \* the loop index of its current for loop
    num_workers,    \* num_workers, line 239-241
    config_queue,   \* config_queue, FIFO
    result_queue,   \* result_queue, FIFO
    worker,         \* per worker process: [pc, config]
    results,        \* the list built by result_queue.get(), line 258
    retval,         \* the list returned, line 259
    \* history, for stating the properties
    dequeued,       \* seq -> the workers that dequeued that config
    ran,            \* seq -> how many times simulate() ran it
    raisedIn,       \* seq -> the calls that raised when it ran
    stops,          \* worker -> how many sentinels it dequeued
    \* progress reporting of a batch
    progress_queue, \* progress_queue, FIFO, of [seq, progress]
    consumer,       \* where the _consume_progress thread is
    notifiers,      \* its dict seq -> last fraction
    total_progress, \* its aggregate, as [sum, len] for sum / len
    pbar,           \* its progress bar: [value, finished]
    emitted,        \* history: seq -> the last fraction the job put, -1 if none
    last            \* history: seq -> the last fraction consumed, 0 if none

simVars ==
    << simPc, simConfig, simReraise, simFails, simOut, cwd, calls,
       exitRaised >>
manyVars ==
    << configs, cpu, jobs, pc, idx, num_workers, config_queue, result_queue,
       worker, results, retval, dequeued, ran, raisedIn, stops >>
progVars ==
    << progress_queue, consumer, notifiers, total_progress, pbar, emitted,
       last >>
vars == << simVars, manyVars, progVars >>

Min(a, b) == IF a <= b THEN a ELSE b

\* The worker processes that can exist.
Workers == 0 .. (Min(MaxJobs, MaxCpu) - 1)
Seqs == 0 .. (MaxJobs - 1)

\* An entry of config_queue: a config, or the stop sentinel None.
Job(config) == [ stop |-> FALSE, config |-> config ]
Sentinel == [ stop |-> TRUE, config |-> NoConfig ]

(* ------------------------ the single-job API -------------------------- *)
\* The configs handed to simulate() directly: without 'sim.seq', or with
\* the 'sim.seq' an earlier simulate_many call left in the dict (line 235).
SimConfigs ==
    { Config(q, p, f, w) :
        q \in {NoSeq, 0}, p \in BOOLEAN, f \in BOOLEAN, w \in {".", "ws"} }

\* The single-job API is called without a progress queue (the default None
\* of line 125).
SimQueue == FALSE

\* No progress reporting yet: progress_queue is None or empty, no thread.
ProgIdle ==
    /\ progress_queue = << >>
    /\ consumer = "none"
    /\ notifiers = << >>
    /\ total_progress = [sum |-> 0, len |-> 1]
    /\ pbar = [value |-> [sum |-> 0, len |-> 1], finished |-> FALSE]
    /\ emitted = [q \in Seqs |-> -1]
    /\ last = [q \in Seqs |-> 0]

ManyIdle ==
    /\ ProgIdle
    /\ configs = << >> /\ cpu = 1 /\ jobs = NoCap
    /\ pc = "idle" /\ idx = 0 /\ num_workers = 0
    /\ config_queue = << >> /\ result_queue = << >>
    /\ worker = [w \in Workers |->
                    [pc |-> "unborn", config |-> NoConfig, cwd |-> PrevDir,
                     ticks |-> 0]]
    /\ results = << >> /\ retval = << >>
    /\ dequeued = [q \in Seqs |-> {}]
    /\ ran = [q \in Seqs |-> 0]
    /\ raisedIn = [q \in Seqs |-> {}]
    /\ stops = [w \in Workers |-> 0]

SimInit ==
    /\ simPc = "call"
    /\ simConfig \in SimConfigs
    /\ simReraise \in BOOLEAN
    /\ simFails \in FailSets
    /\ simOut = NoOutcome
    /\ cwd = PrevDir /\ calls = 1 /\ exitRaised = FALSE
    /\ ManyIdle

\* simulate() returns its result dict, line 179.
SimReturn ==
    /\ simPc = "call"
    /\ LET out == simulate(simConfig, simReraise, SimQueue, simFails, cwd)
       IN  /\ out.returned
           /\ simOut' = out
           /\ cwd' = out.cwd
           /\ exitRaised' = (exitRaised \/ "ws_exit" \in out.raised)
    /\ simPc' = "returned"
    /\ UNCHANGED << simConfig, simReraise, simFails, calls, manyVars, progVars >>

\* simulate() re-raises, line 174.
SimPropagate ==
    /\ simPc = "call"
    /\ LET out == simulate(simConfig, simReraise, SimQueue, simFails, cwd)
       IN  /\ ~out.returned
           /\ simOut' = out
           /\ cwd' = out.cwd
           /\ exitRaised' = (exitRaised \/ "ws_exit" \in out.raised)
    /\ simPc' = "raised"
    /\ UNCHANGED << simConfig, simReraise, simFails, calls, manyVars, progVars >>

\* The process calls simulate() again with the same config, as the loop of
\* _simulate_worker does (lines 264-269) or a caller of the single-job API.
SimAgain ==
    /\ simPc \in {"returned", "raised"}
    /\ calls < MaxCalls
    /\ simFails' \in NextFailSets
    /\ simPc' = "call"
    /\ calls' = calls + 1
    /\ UNCHANGED << simConfig, simReraise, simOut, cwd, exitRaised,
                    manyVars, progVars >>

(* --------------------------- simulate_many ---------------------------- *)
\* The failures tried for the jobs of a batch: none, or one raising call.
BatchFailSteps == { "elaborate" }
BatchFailSets == { {} } \cup { {st} : st \in BatchFailSteps }

\* The failures tried for the jobs of a batch that reports progress: a call
\* before the progress context is entered.
ProgFailSteps == { "pre_init" }
ProgFailSets == { {} } \cup { {st} : st \in ProgFailSteps }

\* The calls that precede env.run (lines 144-153): none of them can raise
\* once the run has emitted a sample.
BeforeRun ==
    { "ws_enter", "env_init", "pre_init", "progress_enter", "top_init",
      "elaborate" }

\* The failures tried for a job that has emitted `ticks` samples so far.
JobFailSets(config, ticks) ==
    IF ~config.progress_enable THEN BatchFailSets
    ELSE { F \in ProgFailSets : ticks > 0 => F \cap BeforeRun = {} }

\* `any(config.setdefault('sim.progress.enable', False) ...)`, line 227.
ProgressEnable(cs) == \E k \in 1..Len(cs) : cs[k].progress_enable

\* The config put on config_queue by the k-th iteration of lines 234-237
\* (enumerate counts from 0).
Stamp(cs, k) ==
    [cs[k] EXCEPT !.seq = k - 1, !.progress_enable = ProgressEnable(cs)]

\* num_workers, lines 239-241.
NumWorkers(n, ncpu, cap) ==
    IF cap # NoCap THEN Min(Min(n, ncpu), cap) ELSE Min(n, ncpu)

\* The reraise argument the workers are started with, line 246.
WorkerReraiseTrue == TRUE

WorkerReraise == FALSE

\* sorted(results, key=lambda r: r['config']['sim.seq']): a stable sort,
\* here by insertion from the left.
RECURSIVE InsertBySeq(_, _)
InsertBySeq(r, sorted) ==
    IF sorted = << >> THEN << r >>
    ELSE IF r.config.seq < Head(sorted).config.seq THEN << r >> \o sorted
    ELSE << Head(sorted) >> \o InsertBySeq(r, Tail(sorted))

SortByArrival(rs) == rs

RECURSIVE SortBySeq(_)
SortBySeq(rs) ==
    IF rs = << >> THEN << >>
    ELSE LET n == Len(rs)
         IN  InsertBySeq(rs[n], SortBySeq(SubSeq(rs, 1, n - 1)))

\* The batches handed to simulate_many: up to MaxJobs configs, none
\* stamped yet, none asking for progress or a result file.
Batches ==
    { [k \in 1..n |-> Config(NoSeq, FALSE, FALSE, "ws")] : n \in 0..MaxJobs }

SimIdle ==
    /\ simPc = "idle" /\ simConfig = NoConfig /\ simReraise = FALSE
    /\ simFails = {} /\ simOut = NoOutcome
    /\ cwd = PrevDir /\ calls = 0 /\ exitRaised = FALSE

ManyInit ==
    /\ configs \in Batches
    /\ cpu \in 1..MaxCpu
    /\ jobs \in {NoCap} \cup (0..MaxCap)
    /\ pc = "enqueue" /\ idx = 0 /\ num_workers = 0
    /\ config_queue = << >> /\ result_queue = << >>
    /\ worker = [w \in Workers |->
                    [pc |-> "unborn", config |-> NoConfig, cwd |-> PrevDir,
                     ticks |-> 0]]
    /\ results = << >> /\ retval = << >>
    /\ dequeued = [q \in Seqs |-> {}]
    /\ ran = [q \in Seqs |-> 0]
    /\ raisedIn = [q \in Seqs |-> {}]
    /\ stops = [w \in Workers |-> 0]
    /\ SimIdle
    /\ ProgIdle

\* What Queue.get() leaves on the queue: it removes the entry it returns.
AfterGetKeep(q) == q

AfterGet(q) == Tail(q)

\* Queue.put(item) placing the item where the next get() finds it.
PutFront(q, item) == << item >> \o q

\* Queue.put(item): the queue is first in, first out.
Put(q, item) == Append(q, item)

\* One iteration of the for loop of lines 234-237.
EnqueueConfig ==
    /\ pc = "enqueue" /\ idx < Len(configs)
    /\ config_queue' = Put(config_queue, Job(Stamp(configs, idx + 1)))
    /\ idx' = idx + 1
    /\ UNCHANGED << simVars, progVars, configs, cpu, jobs, pc, num_workers,
                    result_queue, worker, results, retval, dequeued, ran, raisedIn,
                    stops >>

\* Lines 239-241, once the loop above is over.
SizePool ==
    /\ pc = "enqueue" /\ idx = Len(configs)
    /\ num_workers' = NumWorkers(Len(configs), cpu, jobs)
    /\ pc' = "start" /\ idx' = 0
    /\ UNCHANGED << simVars, progVars, configs, cpu, jobs, config_queue, result_queue,
                    worker, results, retval, dequeued, ran, raisedIn, stops >>

\* worker.start(), lines 244-249: the process begins at its first get().
StartWorker ==
    /\ pc = "start" /\ idx < num_workers
    /\ worker' = [worker EXCEPT ![idx].pc = "get"]
    /\ pc' = "sentinel"
    /\ UNCHANGED << simVars, progVars, configs, cpu, jobs, idx, num_workers,
                    config_queue, result_queue, results, retval, dequeued,
                    ran, raisedIn, stops >>

\* config_queue.put(None), line 250.
PutSentinel ==
    /\ pc = "sentinel"
    /\ config_queue' = Put(config_queue, Sentinel)
    /\ idx' = idx + 1
    /\ pc' = "start"
    /\ UNCHANGED << simVars, progVars, configs, cpu, jobs, num_workers, result_queue,
                    worker, results, retval, dequeued, ran, raisedIn, stops >>

\* The loop of lines 243-250 is over; the progress thread is started if
\* progress is enabled (lines 252-256) and the collector starts, line 258.
StartCollect ==
    /\ pc = "start" /\ idx = num_workers
    /\ pc' = "collect" /\ idx' = 0
    /\ consumer' = IF ProgressEnable(configs) THEN "init" ELSE consumer
    /\ UNCHANGED << progress_queue, notifiers, total_progress, pbar, emitted,
                    last >>
    /\ UNCHANGED << simVars, configs, cpu, jobs, num_workers, config_queue,
                    result_queue, worker, results, retval, dequeued, ran, raisedIn,
                    stops >>

\* One result_queue.get() of the list comprehension of line 258; it blocks
\* while the queue is empty.
CollectResult ==
    /\ pc = "collect" /\ idx < Len(configs)
    /\ result_queue # << >>
    /\ results' = Append(results, Head(result_queue))
    /\ result_queue' = AfterGet(result_queue)
    /\ idx' = idx + 1
    /\ UNCHANGED << simVars, progVars, configs, cpu, jobs, pc, num_workers,
                    config_queue, worker, retval, dequeued, ran, raisedIn, stops >>

\* simulate_many waiting for the progress thread before it returns.
JoinsThreadTrue == TRUE

\* Whether simulate_many joins the progress thread before it returns: the
\* thread is a daemon that is started and left alone, lines 252-259.
JoinsThread == FALSE

\* `return sorted(results, ...)`, line 259.
ReturnSorted ==
    /\ pc = "collect" /\ idx = Len(configs)
    /\ JoinsThread => consumer \in {"none", "finished", "interrupted", "failed"}
    /\ retval' = SortBySeq(results)
    /\ pc' = "done"
    /\ UNCHANGED << simVars, progVars, configs, cpu, jobs, idx, num_workers,
                    config_queue, result_queue, worker, results, dequeued,
                    ran, raisedIn, stops >>

\* config_queue.get() in _simulate_worker, lines 265-267; it blocks while
\* the queue is empty.
WorkerGet(w) ==
    /\ worker[w].pc = "get"
    /\ config_queue # << >>
    /\ config_queue' = AfterGet(config_queue)
    /\ IF Head(config_queue).stop
       THEN /\ worker' = [worker EXCEPT ![w].pc = "done"]
            /\ stops' = [stops EXCEPT ![w] = @ + 1]
            /\ UNCHANGED dequeued
       ELSE /\ worker' = [worker EXCEPT
                            ![w].pc = "sim",
                            ![w].config = Head(config_queue).config,
                            ![w].ticks = 0]
            /\ dequeued' = [dequeued EXCEPT
                              ![Head(config_queue).config.seq] = @ \cup {w}]
            /\ UNCHANGED stops
    /\ UNCHANGED << simVars, progVars, configs, cpu, jobs, pc, idx, num_workers,
                    result_queue, results, retval, ran, raisedIn >>

\* Lines 268-269: the worker runs the job and puts its result; if
\* simulate() propagates an exception the worker process dies.  In shared
\* progress mode the job's final sample is put on the way out (line 324).
WorkerSimulate(w) ==
    /\ worker[w].pc = "sim"
    /\ \E F \in JobFailSets(worker[w].config, worker[w].ticks) :
         LET out == simulate(worker[w].config, WorkerReraise,
                             ProgressEnable(configs), F, worker[w].cwd)
             final == [ seq |-> worker[w].config.seq, progress |-> One ]
         IN  /\ IF FinalSamplePut(worker[w].config, F)
                THEN /\ progress_queue' = Put(progress_queue, final)
                     /\ emitted' = [emitted EXCEPT ![final.seq] = One]
                ELSE UNCHANGED << progress_queue, emitted >>
             /\ IF out.returned
                THEN /\ result_queue' = Append(result_queue, out.result)
                     /\ worker' = [worker EXCEPT ![w].pc = "get",
                                                 ![w].cwd = out.cwd]
                ELSE /\ worker' = [worker EXCEPT ![w].pc = "crashed",
                                                 ![w].cwd = out.cwd]
                     /\ UNCHANGED result_queue
             /\ raisedIn' = [raisedIn EXCEPT
                               ![worker[w].config.seq] = out.raised]
    /\ ran' = [ran EXCEPT ![worker[w].config.seq] = @ + 1]
    /\ UNCHANGED << consumer, notifiers, total_progress, pbar, last >>
    /\ UNCHANGED << simVars, configs, cpu, jobs, pc, idx, num_workers,
                    config_queue, results, retval, dequeued, stops >>

\* The progress process of a job in shared mode puts its next periodic
\* sample, lines 314-317.
WorkerEmit(w) ==
    /\ worker[w].pc = "sim"
    /\ ProgressMode(worker[w].config) = "shared"
    /\ worker[w].ticks < MaxTicks
    /\ LET sample == [ seq |-> worker[w].config.seq,
                       progress |-> worker[w].ticks ]
       IN  /\ progress_queue' = Put(progress_queue, sample)
           /\ emitted' = [emitted EXCEPT ![sample.seq] = sample.progress]
    /\ worker' = [worker EXCEPT ![w].ticks = @ + 1]
    /\ UNCHANGED << consumer, notifiers, total_progress, pbar, last >>
    /\ UNCHANGED << simVars, configs, cpu, jobs, pc, idx, num_workers,
                    config_queue, result_queue, results, retval, dequeued,
                    ran, raisedIn, stops >>

ManyNext ==
    \/ EnqueueConfig
    \/ SizePool
    \/ StartWorker
    \/ PutSentinel
    \/ StartCollect
    \/ CollectResult
    \/ ReturnSorted
    \/ \E w \in Workers : WorkerGet(w)
    \/ \E w \in Workers : WorkerSimulate(w)

Init == SimInit \/ ManyInit

Next == SimReturn \/ SimPropagate \/ SimAgain \/ ManyNext

Spec == Init /\ [][Next]_vars

(* ----------------------- _consume_progress ---------------------------- *)
\* sum(d.values()) for a dict d with keys in S.
RECURSIVE SumOver(_, _)
SumOver(d, S) ==
    IF S = {} THEN 0
    ELSE LET q == CHOOSE x \in S : TRUE
         IN  d[q] + SumOver(d, S \ {q})

\* The dict with no entry yet.
NotifiersNone(cs) == [q \in {} |-> 0]

\* `{config['sim.seq']: 0 for config in configs}`, line 331, over the
\* configs as simulate_many stamped them.
NotifiersInit(cs) == [q \in { Stamp(cs, k).seq : k \in 1..Len(cs) } |-> 0]

\* `notifiers[seq] = progress`, line 337.
Assign(d, key, value) ==
    [q \in DOMAIN d \cup {key} |-> IF q = key THEN value ELSE d[q]]

\* `sum(notifiers.values()) / len(notifiers)`, line 338: the quotient is
\* kept as its two terms, the sum in hundredths.
Mean(d) == [ sum |-> SumOver(d, DOMAIN d), len |-> Cardinality(DOMAIN d) ]

\* The loop condition comparing the sum, not the mean, with 1.
LessThanOneSum(t) == t.sum < One

\* `total_progress < 1`, line 335.
LessThanOne(t) == t.sum < One * t.len

\* Whether pbar.finish() of the else clause runs whatever ended the loop.
ElseAlways(interrupted) == TRUE

\* Whether pbar.finish() of the else clause (lines 342-343) runs: only if
\* the try block ended without KeyboardInterrupt.
ElseClause(interrupted) == ~interrupted

\* The progress batches handed to simulate_many: 1..MaxProgJobs configs,
\* of which none or only the first sets 'sim.progress.enable'.
ProgBatches ==
    { [ k \in 1..n |-> Config(NoSeq, p /\ k = 1, FALSE, "ws") ] :
        n \in 1..MaxProgJobs, p \in BOOLEAN }

ProgInit ==
    /\ configs \in ProgBatches
    /\ cpu \in 1..MaxCpu
    /\ jobs = 2    \* simulate_many(configs, top_type, env_type, jobs=2)
    /\ pc = "enqueue" /\ idx = 0 /\ num_workers = 0
    /\ config_queue = << >> /\ result_queue = << >>
    /\ worker = [w \in Workers |->
                    [pc |-> "unborn", config |-> NoConfig, cwd |-> PrevDir,
                     ticks |-> 0]]
    /\ results = << >> /\ retval = << >>
    /\ dequeued = [q \in Seqs |-> {}]
    /\ ran = [q \in Seqs |-> 0]
    /\ raisedIn = [q \in Seqs |-> {}]
    /\ stops = [w \in Workers |-> 0]
    /\ SimIdle
    /\ ProgIdle

\* Lines 330-332: the thread builds its bar and its dict.
ConsumeInit ==
    /\ consumer = "init"
    /\ consumer' = "loop"
    /\ notifiers' = NotifiersInit(configs)
    /\ total_progress' = [sum |-> 0, len |-> 1]
    /\ UNCHANGED << progress_queue, pbar, emitted, last >>
    /\ UNCHANGED << simVars, manyVars >>

\* One iteration of the while loop, lines 335-339; get() blocks while the
\* queue is empty.
ConsumeSample ==
    /\ consumer = "loop"
    /\ LessThanOne(total_progress)
    /\ progress_queue # << >>
    /\ LET sample == Head(progress_queue)
           d == Assign(notifiers, sample.seq, sample.progress)
       IN  /\ notifiers' = d
           /\ total_progress' = Mean(d)
           /\ pbar' = [pbar EXCEPT !.value = Mean(d)]
           /\ last' = [last EXCEPT ![sample.seq] = sample.progress]
    /\ progress_queue' = AfterGet(progress_queue)
    /\ UNCHANGED << consumer, emitted >>
    /\ UNCHANGED << simVars, manyVars >>

\* The loop condition fails and the else clause runs, lines 335, 342-343.
ConsumeFinish ==
    /\ consumer = "loop"
    /\ ~LessThanOne(total_progress)
    /\ consumer' = "finished"
    /\ pbar' = [pbar EXCEPT !.finished = ElseClause(FALSE)]
    /\ UNCHANGED << progress_queue, notifiers, total_progress, emitted,
                    last >>
    /\ UNCHANGED << simVars, manyVars >>

\* KeyboardInterrupt inside the try block, lines 340-341.
ConsumeInterrupt ==
    /\ consumer = "loop"
    /\ LessThanOne(total_progress)
    /\ consumer' = "interrupted"
    /\ pbar' = [pbar EXCEPT !.finished = ElseClause(TRUE)]
    /\ UNCHANGED << progress_queue, notifiers, total_progress, emitted,
                    last >>
    /\ UNCHANGED << simVars, manyVars >>

\* _get_progressbar raises (line 330: the progressbar module or the
\* display is not usable): the thread dies with the error.
ConsumeFail ==
    /\ consumer = "init"
    /\ consumer' = "failed"
    /\ UNCHANGED << progress_queue, notifiers, total_progress, pbar,
                    emitted, last >>
    /\ UNCHANGED << simVars, manyVars >>

\* A batch with its progress thread, without interrupt or display error.
LiveNext ==
    \/ ManyNext
    \/ \E w \in Workers : WorkerEmit(w)
    \/ ConsumeInit
    \/ ConsumeSample
    \/ ConsumeFinish

ProgNext ==
    \/ LiveNext
    \/ ConsumeInterrupt
    \/ ConsumeFail

\* simulate_many with progress reporting.
ProgSpec == ProgInit /\ [][ProgNext]_vars

\* The same where every process and thread that can step eventually does
\* and nothing interrupts the progress thread.
ProgLiveSpec == ProgInit /\ [][LiveNext]_vars /\ WF_vars(LiveNext)

(* ----------------------------- properties ----------------------------- *)
\* Number of entries of the sequence q that satisfy Test.
CountIn(q, Test(_)) == Cardinality({ k \in 1..Len(q) : Test(q[k]) })

N == Len(configs)
InBatch == pc # "idle"
Spawned == { w \in Workers : worker[w].pc # "unborn" }
EveryResult ==
    { result_queue[k] : k \in 1..Len(result_queue) }
        \cup { results[k] : k \in 1..Len(results) }
        \cup { retval[k] : k \in 1..Len(retval) }
NeededKeys == { "sim.exception", "sim.runtime", "config" }

\* C1: when simulate_many returns, the returned list has one entry per
\* submitted config and its i-th entry carries 'sim.seq' = i-1, i.e. it is
\* the result of the i-th submitted config, whatever the arrival order was.
C1_ReturnedInSubmissionOrder ==
    pc = "done" =>
        /\ Len(retval) = N
        /\ \A k \in 1..Len(retval) :
              /\ retval[k].config.seq = k - 1
              /\ retval[k].config = Stamp(configs, k)

\* C1 witness: a batch returned although the results arrived out of order.
C1_Witness ==
    /\ pc = "done" /\ N = 3
    /\ results[1].config.seq = 1
    /\ results[2].config.seq = 2
    /\ results[3].config.seq = 0
    /\ retval[1].config.seq = 0

\* C2: as long as simulate_many has not returned and no worker process
\* died, some process can take a step: the call never blocks forever (every
\* run of the model is finite, so this is termination with N results).
C2_NeverBlocksForever ==
    (InBatch /\ pc # "done" /\ \A w \in Workers : worker[w].pc # "crashed")
        => ENABLED Next

\* C3: no worker dies of a failing job; in the returned list exactly the
\* jobs in which a call raised carry a non-null 'sim.exception', and the
\* list is still complete and in submission order.
C3_FailureIsolated ==
    /\ \A w \in Workers : worker[w].pc # "crashed"
    /\ \A r \in EveryResult :
          /\ "sim.exception" \in r.keys
          /\ (r.exception # NoExc) <=> (raisedIn[r.config.seq] # {})
    /\ pc = "done" =>
          /\ Len(retval) = N
          /\ \A k \in 1..Len(retval) : retval[k].config.seq = k - 1

\* C3 witness: jobs 0, 1, 2 with job 1 failing; the worker that ran job 1
\* went on to run job 2; only result 1 carries an exception.
C3_Witness ==
    /\ pc = "done" /\ N = 3
    /\ raisedIn[0] = {} /\ raisedIn[1] = {"elaborate"} /\ raisedIn[2] = {}
    /\ dequeued[1] = dequeued[2]
    /\ retval[1].exception = NoExc
    /\ retval[2].exception = "elaborate"
    /\ retval[3].exception = NoExc

\* C4: every job is dequeued by at most one worker, run at most once and has
\* at most one result in flight or collected; a job is on the work queue or
\* dequeued, never both; when the batch returns every job was dequeued by
\* exactly one worker, run exactly once and has exactly one result.
C4_ExactlyOnce ==
    InBatch =>
      \A q \in Seqs :
        LET IsQ(r) == r.config.seq = q
            queued == CountIn(config_queue, IsQ)
            made == CountIn(result_queue, IsQ) + CountIn(results, IsQ)
        IN  /\ Cardinality(dequeued[q]) <= 1
            /\ ran[q] <= 1
            /\ made <= ran[q]
            /\ ran[q] <= Cardinality(dequeued[q])
            /\ queued + Cardinality(dequeued[q]) <= 1
            /\ (pc = "done" /\ q < N) =>
                  /\ Cardinality(dequeued[q]) = 1
                  /\ ran[q] = 1
                  /\ CountIn(results, IsQ) = 1
                  /\ CountIn(retval, IsQ) = 1

\* C4 witness: a batch of three jobs shared by two workers has returned.
C4_Witness ==
    /\ pc = "done" /\ N = 3 /\ num_workers = 2
    /\ dequeued[0] # dequeued[1]
    /\ \A q \in 0..2 : ran[q] = 1

\* C5: a call of simulate in which some step raised propagates (returns no
\* result) when reraise is true, and returns a result with a non-null
\* 'sim.exception' when reraise is false; with reraise false it never
\* propagates.
C5_ReraiseContract ==
    simPc \in {"returned", "raised"} =>
        /\ (simOut.raised # {} /\ simReraise) =>
              /\ simPc = "raised"
              /\ ~simOut.returned
        /\ (simOut.raised # {} /\ ~simReraise) =>
              /\ simPc = "returned"
              /\ "sim.exception" \in simOut.result.keys
              /\ simOut.result.exception # NoExc
        /\ ~simReraise => simPc = "returned"
        /\ simOut.raised = {} => simPc = "returned"
        /\ simOut.raised \subseteq simFails \cup Forced(simConfig, SimQueue)
        /\ ({"ws_enter"} \cap simFails # {}) => simOut.raised # {}

\* C5 witness: reraise is false, the result dump raised, the call returned.
C5_Witness ==
    /\ simPc = "returned" /\ ~simReraise
    /\ simOut.raised = {"dump"}
    /\ simOut.result.exception = "dump"

\* C6: every result returned by simulate, and every result a worker put on
\* the result queue, has the keys 'sim.exception', 'sim.runtime' and
\* 'config'; its 'sim.exception' is null exactly when no step raised.
C6_ResultKeys ==
    /\ simPc = "returned" =>
          /\ NeededKeys \subseteq simOut.result.keys
          /\ simOut.result.config = simConfig
          /\ (simOut.result.exception = NoExc) <=> (simOut.raised = {})
    /\ \A r \in EveryResult :
          /\ NeededKeys \subseteq r.keys
          /\ (r.exception = NoExc) <=> (raisedIn[r.config.seq] = {})

\* C6 witness: workspace acquisition raised and the result returned has
\* just the three keys.
C6_Witness ==
    /\ simPc = "returned"
    /\ simOut.raised = {"ws_enter"}
    /\ simOut.result.keys = NeededKeys
    /\ simOut.result.exception = "ws_enter"

\* C7 as stated: every result returned with reraise false has 'sim.now' and
\* 'sim.time' besides 'sim.runtime' and 'config', whichever step failed.
C7_AlwaysSimTime ==
    (simPc = "returned" /\ ~simReraise) =>
        {"sim.now", "sim.time", "sim.runtime", "config"}
            \subseteq simOut.result.keys

\* C7 amended: every result returned has 'sim.runtime' and 'config'; it
\* has 'sim.now' and 'sim.time' exactly when workspace acquisition,
\* Environment construction and the final trace flush did not raise.
C7_SimTimeOnceEnvExists ==
    simPc = "returned" =>
        /\ {"sim.runtime", "config"} \subseteq simOut.result.keys
        /\ ("sim.now" \in simOut.result.keys)
              <=> (simOut.raised
                     \cap {"ws_enter", "env_init", "flush_final"} = {})
        /\ ("sim.time" \in simOut.result.keys)
              <=> ("sim.now" \in simOut.result.keys)

\* C7 witness: elaboration raised with reraise false and the result still
\* has the simulation time.
C7_Witness ==
    /\ simPc = "returned" /\ ~simReraise
    /\ simOut.raised = {"elaborate"}
    /\ {"sim.now", "sim.time"} \subseteq simOut.result.keys

\* C8: when 'sim.result.file' is set, the result file has been written by
\* the time simulate returns or propagates, on every path.
C8_DumpedOnEveryPath ==
    (simPc \in {"returned", "raised"} /\ simConfig.result_file)
        => simOut.file.written

\* C9: for a non-empty batch the number of workers is
\* min(jobs, parallelism, cap), that many processes are started, and it is
\* never less than 1.
C9_PoolSize ==
    (pc \in {"collect", "done"} /\ N >= 1) =>
        /\ num_workers = Min(N, Min(cpu, IF jobs = NoCap THEN N ELSE jobs))
        /\ Cardinality(Spawned) = num_workers
        /\ num_workers >= 1

\* C10: one sentinel is put per started worker, behind every job config; a
\* worker takes at most one sentinel and is terminated exactly when it took
\* one; and once no process can take a step any more, every started worker
\* has terminated and the work queue is empty.
C10_SentinelProtocol ==
    InBatch =>
        /\ \A j, k \in 1..Len(config_queue) :
              (config_queue[j].stop /\ j < k) => config_queue[k].stop
        /\ \A w \in Workers :
              /\ stops[w] <= 1
              /\ (worker[w].pc = "done") <=> (stops[w] = 1)
        /\ pc \in {"collect", "done"} =>
              CountIn(config_queue, LAMBDA e : e.stop)
                  + Cardinality({ w \in Workers : stops[w] = 1 })
                = Cardinality(Spawned)
        /\ ~ENABLED Next =>
              /\ \A w \in Spawned : worker[w].pc = "done"
              /\ config_queue = << >>

\* ------------------------------------------------------------------------
\* C11 as written: after simulate() returns or raises, the working directory
\* of the process equals the one at the time of the call, whichever step
\* failed.
C11_CwdAlwaysRestored ==
    simPc \in {"returned", "raised"} =>
        /\ simOut.cwd = simOut.prev
        /\ cwd = PrevDir

\* C11: after simulate() returns or raises, the working directory equals the
\* one at the time of the call unless the chdir of the workspace release
\* itself raised; it then stays in the workspace if one was entered. A
\* process that calls simulate() in sequence, and every worker at each
\* dequeue, is in its original directory as long as no release raised.
C11_CwdRestoredUnlessExitRaised ==
    /\ simPc \in {"returned", "raised"} =>
        /\ "ws_exit" \notin simOut.raised => simOut.cwd = simOut.prev
        /\ ( /\ "ws_exit" \in simOut.raised
             /\ "ws_enter" \notin simOut.raised
             /\ simConfig.workspace # "." ) => simOut.cwd # simOut.prev
        /\ cwd = simOut.cwd
        /\ ~exitRaised => cwd = PrevDir
    /\ \A w \in Workers :
         ( /\ worker[w].pc = "get"
           /\ \A q \in Seqs : "ws_exit" \notin raisedIn[q] )
           => worker[w].cwd = PrevDir

\* A second call in sequence whose job failed inside a workspace, after
\* which the process is back in its original directory.
C11_Witness ==
    /\ simPc = "returned" /\ calls = 2
    /\ simConfig.workspace = "ws"
    /\ simOut.raised = {"elaborate"}
    /\ ~exitRaised
    /\ cwd = PrevDir

\* ------------------------------------------------------------------------
\* The calls of the workspace scope (acquire, release) that raised in the
\* last simulate() call.
WorkspaceErrors == simOut.raised \cap {"ws_enter", "ws_exit"}

\* C12 as written: an error raised while acquiring or releasing the
\* workspace is propagated to the caller for every value of reraise.
C12_WorkspaceErrorAlwaysPropagated ==
    ( simPc \in {"returned", "raised"} /\ WorkspaceErrors # {} )
        => simPc = "raised"

\* C12: an error raised while acquiring or releasing the workspace is
\* propagated exactly when reraise is true; with reraise false simulate()
\* returns and the Result's 'sim.exception' holds that error, or the error
\* of the job step that had already been recorded.
C12_WorkspaceErrorFollowsReraise ==
    ( simPc \in {"returned", "raised"} /\ WorkspaceErrors # {} ) =>
        /\ simPc = "raised" <=> simReraise
        /\ simOut.exc \in WorkspaceErrors
        /\ ~simReraise =>
             /\ "sim.exception" \in simOut.result.keys
             /\ simOut.result.exception \in simOut.raised
             /\ simOut.result.exception \notin WorkspaceErrors
                  => simOut.result.exception \in
                       { BodySteps[i] : i \in 1..Len(BodySteps) }
                           \cup {"progress_exit"}

\* Worker mode (reraise false): the workspace release raised after a job
\* that completed, and simulate() returned with the error recorded.
C12_Witness ==
    /\ simPc = "returned" /\ ~simReraise
    /\ simOut.raised = {"ws_exit"}
    /\ simOut.result.exception = "ws_exit"

\* ------------------------------------------------------------------------
\* C18: the emission mode follows the presence of a progress channel: a
\* single-job call with progress enabled and no channel is in local mode
\* for every config, also one that carries a 'sim.seq', and so no call
\* raises other than those of the job; a job run by a batch worker with
\* progress enabled is in shared mode.
C18_ModeByBatchContext ==
    /\ ( simPc # "idle" /\ simConfig.progress_enable )
          => ProgressMode(simConfig) = "local"
    /\ simPc \in {"returned", "raised"} => simOut.raised \subseteq simFails
    /\ \A w \in Workers :
         ( worker[w].pc = "sim" /\ worker[w].config.progress_enable )
            => ProgressMode(worker[w].config) = "shared"

\* ------------------------------------------------------------------------
\* C19: once a worker has dequeued its stop sentinel, every job config of
\* the batch has been dequeued by some worker and no job config is left on
\* the work channel, also while later workers and their sentinels are not
\* yet created.
C19_NoJobBehindSentinel ==
    \A w \in Workers :
        ( stops[w] >= 1 \/ worker[w].pc = "done" ) =>
            /\ \A q \in 0 .. (N - 1) : dequeued[q] # {}
            /\ \A i \in 1 .. Len(config_queue) : config_queue[i].stop

\* A worker has run both jobs of a batch and taken its sentinel before the
\* second worker is started.
C19_Witness ==
    /\ N = 2 /\ num_workers = 2
    /\ pc = "start" /\ idx = 1
    /\ stops[0] = 1
    /\ worker[1].pc = "unborn"
    /\ dequeued[0] = {0} /\ dequeued[1] = {0}

\* ------------------------------------------------------------------------
\* C13: in a batch with progress enabled, once a worker has run a job (it
\* succeeded or failed at any step) the last sample put on the progress
\* channel for its seq is the final sample (seq, 1).
C13_FinalSampleOnEveryPath ==
    \A q \in 0 .. (N - 1) :
        ( ProgressEnable(configs) /\ ran[q] >= 1 ) => emitted[q] = One

\* ------------------------------------------------------------------------
\* Every job of the batch has put its final sample.
AllFinalsPut == \A q \in 0 .. (N - 1) : emitted[q] = One

\* Every periodic sample on the channel is below 1.
PeriodicBelowOne ==
    \A i \in 1 .. Len(progress_queue) :
        progress_queue[i].progress # One => progress_queue[i].progress < One

\* C14: periodic samples are below 1; the aggregator leaves its loop through
\* the loop condition only after it has consumed the final sample of every
\* job, with the aggregate at 1; and once every job has put its final
\* sample the aggregator reaches that point, whatever the order of the
\* samples on the channel.
C14_TerminatesAtOne ==
    /\ [](PeriodicBelowOne)
    /\ []( consumer = "finished" =>
             /\ \A q \in 0 .. (N - 1) : last[q] = One
             /\ total_progress.sum = One * total_progress.len )
    /\ ( AllFinalsPut ~> consumer = "finished" )

\* Two jobs on two workers; the aggregator consumed a periodic sample of
\* job 1 after the final sample of job 0, then finished.
C14_Witness ==
    /\ N = 2 /\ num_workers = 2
    /\ consumer = "finished"
    /\ progress_queue = << >>
    /\ worker[0].ticks = 1 /\ worker[1].ticks = 1
    /\ dequeued[0] # dequeued[1]

\* ------------------------------------------------------------------------
\* C15 as written: the aggregator has called pbar.finish() when it has
\* terminated, through the loop condition or through an interrupt.
C15_FinalizedOnBothPaths ==
    consumer \in {"finished", "interrupted"} => pbar.finished

\* C15: the aggregator calls pbar.finish() exactly when its loop ends
\* through the loop condition (the aggregate reached 1); when it is
\* interrupted it ends without finalizing, the bar left at the last
\* aggregate rendered, which is below 1.
C15_FinalizedOnlyAtOne ==
    /\ pbar.finished <=> consumer = "finished"
    /\ consumer = "finished" => ~LessThanOne(pbar.value)
    /\ consumer = "interrupted" => LessThanOne(pbar.value)

\* The aggregator was interrupted after it had rendered an aggregate of
\* one half.
C15_Witness ==
    /\ consumer = "interrupted"
    /\ N = 2
    /\ pbar.value = [sum |-> One, len |-> 2]
    /\ ~pbar.finished

\* ------------------------------------------------------------------------
\* C16: result collection does not depend on the progress thread: whenever
\* a result is on the result channel the collector can take it, whenever it
\* holds N results simulate_many can return, and the list returned holds
\* for each config the Result its job run produced, whether the thread is
\* blocked below 1, has died of an error, was interrupted or has finished.
C16_CollectionIndependent ==
    /\ ( pc = "collect" /\ idx < N /\ result_queue # << >> )
          => ENABLED CollectResult
    /\ ( pc = "collect" /\ idx = N ) => ENABLED ReturnSorted
    /\ pc = "done" =>
          /\ Len(retval) = N
          /\ \A k \in 1..N :
                retval[k] = simulate(Stamp(configs, k), WorkerReraise,
                                     ProgressEnable(configs),
                                     raisedIn[k - 1], PrevDir).result

\* simulate_many has returned both results while the progress thread is
\* blocked for ever on an empty channel with the aggregate below 1.
C16_Witness ==
    /\ pc = "done" /\ N = 2
    /\ consumer = "loop"
    /\ LessThanOne(total_progress)
    /\ progress_queue = << >>
    /\ \A w \in Spawned : worker[w].pc = "done"

\* ------------------------------------------------------------------------
\* C17: once the aggregator has built its table, the aggregate it holds and
\* the one it rendered last equal the sum over all N jobs of the batch of
\* the last sample consumed for the job (0 if none) divided by N.
C17_MeanOverAllJobs ==
    consumer \in {"loop", "finished", "interrupted"} =>
        /\ DOMAIN notifiers = 0 .. (N - 1)
        /\ total_progress.sum * N
              = SumOver(last, 0 .. (N - 1)) * total_progress.len
        /\ pbar.value = total_progress

\* Of two jobs the aggregator has consumed the final sample of job 0 and a
\* periodic sample of job 1: the aggregate is one half.
C17_Witness ==
    /\ N = 2
    /\ consumer = "loop"
    /\ last[0] = One /\ emitted[1] = 0 /\ last[1] = 0
    /\ dequeued[1] # {}
    /\ total_progress = [sum |-> One, len |-> 2]
    /\ pbar.value = total_progress

\* ------------------------------------------------------------------------
\* C20: every config put on the work channel carries the disjunction of the
\* batch's 'sim.progress.enable' flags; if it is false no sample is ever put
\* and no progress thread exists; if it is true the thread is started with
\* the collector and every job that has been run, also one that did not set
\* the flag itself, has reported its final sample on the shared channel.
C20_AllOrNothing ==
    /\ \A i \in 1 .. Len(config_queue) :
          ~config_queue[i].stop =>
              config_queue[i].config.progress_enable
                  = ProgressEnable(configs)
    /\ ~ProgressEnable(configs) =>
          /\ progress_queue = << >>
          /\ consumer = "none"
          /\ \A q \in Seqs : emitted[q] = -1
    /\ ProgressEnable(configs) =>
          /\ pc \in {"collect", "done"} => consumer # "none"
          /\ \A k \in 1..N :
                ran[k - 1] >= 1 => emitted[k - 1] = One

====
